---------------------------- MODULE Spec2Model ----------------------------
(***************************************************************************)
(* A model of etl_cid10.py, the CID-10 consolidation batch.                *)
(*                                                                         *)
(* Strings are sequences of code points (" " is 32, "-" 45, "." 46,        *)
(* "0" 48, "A" 65, "a" 97), so that strip(), upper(), slicing, split(".")  *)
(* and Python's lexicographic comparison are computed character by         *)
(* character.  A missing value (None / NaN) is Null.  A data frame is a    *)
(* sequence of records, one per row, the record's fields being the         *)
(* frame's columns.                                                        *)
(***************************************************************************)
EXTENDS Integers, Sequences, FiniteSets, TLC

VARIABLES
    pc,                 \* position in the run
    mode,               \* "files": run_etl, "dir": run_etl_from_datasus_dir
    chapters_raw, blocks_raw, categories_raw, subcats_raw,
                        \* the four official CSVs (read_datasus_official)
    chapters, blocks, categories, subcats,
                        \* the structured four-table hierarchy
    has_block_chapter,  \* blocks carries a chapter_code column
    has_subcat_title,   \* subcats carries a subcategory_title column
    datasus_raw,        \* the flat official (codigo, descricao) list
    full,               \* build_structured: the joined frame, all columns
    structured_full,    \* build_structured's result
    cats,               \* the category -> ancestry map of the enricher
    datasus_enriched,   \* prepare_datasus's result
    df,                 \* the consolidated output
    arg, ret            \* argument and result of a utility call

vars == <<pc, mode, chapters_raw, blocks_raw, categories_raw, subcats_raw,
          chapters, blocks, categories, subcats, has_block_chapter,
          has_subcat_title, datasus_raw, full, structured_full, cats,
          datasus_enriched, df, arg, ret>>

-----------------------------------------------------------------------------
(* Values and strings *)

\* None / NaN: no code point is negative, so Null is no string.
Null == <<-1>>

\* pd.isna
IsNa(v) == v = Null

\* str.isspace of one character (ASCII)
IsSpace(c) == c \in {9, 10, 11, 12, 13, 28, 29, 30, 31, 32}

RECURSIVE LStrip(_)
LStrip(s) ==
    IF s = <<>> THEN s
    ELSE IF IsSpace(Head(s)) THEN LStrip(Tail(s)) ELSE s

RECURSIVE RStrip(_)
RStrip(s) ==
    IF s = <<>> THEN s
    ELSE IF IsSpace(s[Len(s)]) THEN RStrip(SubSeq(s, 1, Len(s) - 1)) ELSE s

\* str.strip()
Strip(s) == RStrip(LStrip(s))

UpperChar(c) == IF c >= 97 /\ c <= 122 THEN c - 32 ELSE c

\* str.upper() (ASCII)
Upper(s) == [i \in 1..Len(s) |-> UpperChar(s[i])]

\* str(x) / astype(str): a missing cell becomes the text "nan"
AsStr(v) == IF IsNa(v) THEN <<110, 97, 110>> ELSE v

\* s[:n]
Take(s, n) == SubSeq(s, 1, IF Len(s) < n THEN Len(s) ELSE n)

\* s[n:]
Drop(s, n) == SubSeq(s, n + 1, Len(s))

\* "." in s
HasDot(s) == \E i \in 1..Len(s) : s[i] = 46

\* s.split(".")[0]
RECURSIVE BeforeDot(_)
BeforeDot(s) ==
    IF s = <<>> THEN s
    ELSE IF Head(s) = 46 THEN <<>> ELSE <<Head(s)>> \o BeforeDot(Tail(s))

\* a <= b on Python strings: lexicographic by code point
RECURSIVE StrLeq(_, _)
StrLeq(a, b) ==
    IF a = <<>> THEN TRUE
    ELSE IF b = <<>> THEN FALSE
    ELSE IF Head(a) < Head(b) THEN TRUE
    ELSE IF Head(a) > Head(b) THEN FALSE
    ELSE StrLeq(Tail(a), Tail(b))

\* f"{start}-{end}"
RangeCode(start, end) == start \o <<45>> \o end

-----------------------------------------------------------------------------
(* Utilities *)

normalize_code(code) ==
    IF IsNa(code) THEN Null ELSE Upper(Strip(code))

extract_root_category(code) ==
    IF IsNa(code) THEN Null ELSE BeforeDot(normalize_code(code))

\* the lambda of lines 80 and 129: c if c and "." in c else None
subcategoria(c) ==
    IF ~IsNa(c) /\ c # <<>> /\ HasDot(c) THEN c ELSE Null

\* a formatter that puts the dot in whatever the fourth character is
format_subcat_always_dot(sc) ==
    IF IsNa(sc) THEN Null
    ELSE LET s == Upper(Strip(AsStr(sc)))
         IN  IF Len(s) >= 4 THEN Take(s, 3) \o <<46>> \o Drop(s, 3)
             ELSE Take(s, 3)

format_subcat(sc) ==
    IF IsNa(sc) THEN Null
    ELSE LET s == Upper(Strip(AsStr(sc)))
         IN  IF Len(s) >= 4 /\ <<s[4]>> # <<>>
             THEN LET fourth == Strip(<<s[4]>>)
                  IN  IF fourth # <<>>
                      THEN Take(s, 3) \o <<46>> \o Drop(s, 3)
                      ELSE Take(s, 3)
             ELSE Take(s, 3)

-----------------------------------------------------------------------------
(* Frames *)

RECURSIVE Flatten(_)
Flatten(ss) == IF ss = <<>> THEN <<>> ELSE Head(ss) \o Flatten(Tail(ss))

\* all sequences over S of length at most n
SeqsUpTo(S, n) == UNION {[1..k -> S] : k \in 0..n}

\* the text of a title: a letter and the row's number
Title(letter, i) == <<letter, 48 + i>>

-----------------------------------------------------------------------------
(* read_datasus_official: the Hierarchy Builder *)

belongs_to_range(code3, start, end) ==
    StrLeq(start, code3) /\ StrLeq(code3, end)

\* blocks_raw[['CATINIC','CATFIM']].astype(str), stripped and uppercased,
\* zipped into a list of (start, end)
range_list(raw) ==
    [i \in 1..Len(raw) |->
        <<Upper(Strip(AsStr(raw[i].CATINIC))), Upper(Strip(AsStr(raw[i].CATFIM)))>>]

\* raw['DESCRICAO'].astype(str).str.strip().tolist()
title_list(raw) == [i \in 1..Len(raw) |-> Strip(AsStr(raw[i].DESCRICAO))]

\* d[key] = val on an insertion-ordered dict, kept as a sequence of entries:
\* an existing key keeps its place and takes the new value
DictPut(d, key, val) ==
    IF \E i \in 1..Len(d) : d[i].key = key
    THEN [i \in 1..Len(d) |->
            IF d[i].key = key THEN [key |-> key, val |-> val] ELSE d[i]]
    ELSE Append(d, [key |-> key, val |-> val])

\* block_map / chapter_map: (start, end) -> {code, title}
RECURSIVE range_map(_, _)
range_map(ranges, titles) ==
    IF ranges = <<>> THEN <<>>
    ELSE LET n == Len(ranges)
         IN  DictPut(range_map(SubSeq(ranges, 1, n - 1), SubSeq(titles, 1, n - 1)),
                     ranges[n],
                     [code  |-> RangeCode(ranges[n][1], ranges[n][2]),
                      title |-> titles[n]])

\* a scan that keeps the last matching range, having no break
RECURSIVE infer_range_last(_, _)
infer_range_last(code, map) ==
    IF map = <<>> THEN Null
    ELSE LET e == map[Len(map)]
         IN  IF belongs_to_range(code, e.key[1], e.key[2]) THEN e.val.code
             ELSE infer_range_last(code, SubSeq(map, 1, Len(map) - 1))

\* lines 303-310: the first entry of the map, in its order, containing code
RECURSIVE infer_range(_, _)
infer_range(code, map) ==
    IF map = <<>> THEN Null
    ELSE IF belongs_to_range(code, Head(map).key[1], Head(map).key[2])
         THEN Head(map).val.code
         ELSE infer_range(code, Tail(map))

\* an endpoint test that asks for both endpoints
RECURSIVE infer_block_chapter_both(_, _, _)
infer_block_chapter_both(start, end, map) ==
    IF map = <<>> THEN Null
    ELSE IF belongs_to_range(start, Head(map).key[1], Head(map).key[2])
            /\ belongs_to_range(end, Head(map).key[1], Head(map).key[2])
         THEN Head(map).val.code
         ELSE infer_block_chapter_both(start, end, Tail(map))

\* lines 318-324: the first chapter containing the block's start or its end
RECURSIVE infer_block_chapter(_, _, _)
infer_block_chapter(start, end, map) ==
    IF map = <<>> THEN Null
    ELSE IF belongs_to_range(start, Head(map).key[1], Head(map).key[2])
            \/ belongs_to_range(end, Head(map).key[1], Head(map).key[2])
         THEN Head(map).val.code
         ELSE infer_block_chapter(start, end, Tail(map))

block_map == range_map(range_list(blocks_raw), title_list(blocks_raw))

chapter_map == range_map(range_list(chapters_raw), title_list(chapters_raw))

\* lines 230-233
official_chapters ==
    [i \in 1..Len(chapters_raw) |->
        [chapter_code  |-> RangeCode(Strip(AsStr(chapters_raw[i].CATINIC)),
                                     Strip(AsStr(chapters_raw[i].CATFIM))),
         chapter_title |-> Strip(AsStr(chapters_raw[i].DESCRICAO))]]

\* lines 235-239 and 316-325
official_blocks ==
    [i \in 1..Len(blocks_raw) |->
        [block_id     |-> RangeCode(Strip(AsStr(blocks_raw[i].CATINIC)),
                                    Strip(AsStr(blocks_raw[i].CATFIM))),
         block_title  |-> Strip(AsStr(blocks_raw[i].DESCRICAO)),
         chapter_code |-> infer_block_chapter(range_list(blocks_raw)[i][1],
                                              range_list(blocks_raw)[i][2],
                                              chapter_map)]]

\* lines 241-246 and 296-314
official_categories ==
    [i \in 1..Len(categories_raw) |->
        LET code == Upper(Strip(AsStr(categories_raw[i].CAT)))
        IN  [category_code  |-> code,
             category_title |-> Strip(AsStr(categories_raw[i].DESCRICAO)),
             block_id       |-> infer_range(code, block_map),
             chapter_code   |-> infer_range(code, chapter_map)]]

\* lines 260-264
official_subcats ==
    [i \in 1..Len(subcats_raw) |->
        [subcategory_code  |-> format_subcat(subcats_raw[i].SUBCAT),
         subcategory_title |-> Strip(AsStr(subcats_raw[i].DESCRICAO)),
         category_code     |-> Upper(Take(AsStr(subcats_raw[i].SUBCAT), 3))]]

ReadDatasusOfficial ==
    /\ pc = "read_official"
    /\ chapters' = official_chapters
    /\ blocks' = official_blocks
    /\ categories' = official_categories
    /\ subcats' = official_subcats
    /\ has_block_chapter' = TRUE
    /\ has_subcat_title' = TRUE
    /\ pc' = "build_structured"
    /\ UNCHANGED <<mode, chapters_raw, blocks_raw, categories_raw, subcats_raw,
                   datasus_raw, full, structured_full, cats, datasus_enriched,
                   df, arg, ret>>

-----------------------------------------------------------------------------
(* pandas pieces used by the joins *)

\* frame.rename(columns={old: new})
Rename(frame, old, new) ==
    [i \in 1..Len(frame) |->
        [f \in (DOMAIN frame[i] \ {old}) \cup {new} |->
            IF f = new THEN frame[i][old] ELSE frame[i][f]]]

\* frame[cols]
Project(frame, cols) ==
    [i \in 1..Len(frame) |-> [f \in cols |-> frame[i][f]]]

\* an inner join: a left row without a match is dropped
merge_inner(left, right, lkey, rkey, nullRight) ==
    Flatten([i \in 1..Len(left) |->
        LET m == SelectSeq(right, LAMBDA r : r[rkey] = left[i][lkey])
        IN  [j \in 1..Len(m) |-> left[i] @@ m[j]]])

\* left.merge(right, left_on=lkey, right_on=rkey, how="left"): every left row,
\* in order, once per matching right row (missing keys match each other), or
\* once with the right columns missing when nothing matches
merge_left(left, right, lkey, rkey, nullRight) ==
    Flatten([i \in 1..Len(left) |->
        LET m == SelectSeq(right, LAMBDA r : r[rkey] = left[i][lkey])
        IN  IF m = <<>> THEN <<left[i] @@ nullRight>>
            ELSE [j \in 1..Len(m) |-> left[i] @@ m[j]]])

\* lines 59-67 and 342-348: chapter_code_x, with chapter_code_y where it is
\* missing; both suffixed columns dropped
fill_chapter_code(frame) ==
    [i \in 1..Len(frame) |->
        [f \in (DOMAIN frame[i] \ {"chapter_code_x", "chapter_code_y"})
                 \cup {"chapter_code"} |->
            IF f = "chapter_code"
            THEN IF IsNa(frame[i].chapter_code_x)
                 THEN frame[i].chapter_code_y
                 ELSE frame[i].chapter_code_x
            ELSE frame[i][f]]]

\* lines 55-67 and 340-348: categories -> chapters -> blocks
cats_chapters_blocks ==
    LET c1 == merge_left(categories, chapters, "chapter_code", "chapter_code",
                         [chapter_title |-> Null])
    IN  IF has_block_chapter
        THEN fill_chapter_code(
                 merge_left(Rename(c1, "chapter_code", "chapter_code_x"),
                            Rename(blocks, "chapter_code", "chapter_code_y"),
                            "block_id", "block_id",
                            [block_title |-> Null, chapter_code_y |-> Null]))
        ELSE merge_left(c1, blocks, "block_id", "block_id",
                        [block_title |-> Null])

\* line 175: categories -> blocks -> chapters (blocks has no chapter_code)
cats_blocks_chapters ==
    merge_left(merge_left(categories, blocks, "block_id", "block_id",
                          [block_title |-> Null]),
               chapters, "chapter_code", "chapter_code",
               [chapter_title |-> Null])

Estruturada == <<69, 115, 116, 114, 117, 116, 117, 114, 97, 100, 97>>

DATASUS == <<68, 65, 84, 65, 83, 85, 83>>

OutCols == {"cid_codigo", "cid_categoria", "cid_subcategoria", "titulo",
            "descricao", "capitulo_codigo", "capitulo_titulo", "bloco_codigo",
            "bloco_titulo", "fonte"}

-----------------------------------------------------------------------------
(* build_structured: the Structured-Source Expander *)

\* a title that falls back row by row to the category's
structured_title_per_row(r) ==
    IF has_subcat_title /\ ~IsNa(r.subcategory_title)
    THEN r.subcategory_title ELSE r.category_title

\* lines 84-85
structured_title(r) ==
    IF has_subcat_title THEN r.subcategory_title ELSE r.category_title

\* lines 70-94: the joined frame with the derived columns
structured_frame ==
    LET joined == merge_left(subcats, cats_chapters_blocks,
                             "category_code", "category_code",
                             [category_title |-> Null, block_id |-> Null,
                              chapter_code |-> Null, chapter_title |-> Null,
                              block_title |-> Null])
    IN  [i \in 1..Len(joined) |->
            LET r == joined[i]
                codigo == normalize_code(r.subcategory_code)
            IN  r @@ [cid_codigo       |-> codigo,
                      cid_categoria    |-> normalize_code(r.category_code),
                      cid_subcategoria |-> subcategoria(codigo),
                      titulo           |-> structured_title(r),
                      descricao        |-> structured_title(r),
                      bloco_codigo     |-> r.block_id,
                      bloco_titulo     |-> r.block_title,
                      capitulo_codigo  |-> r.chapter_code,
                      capitulo_titulo  |-> r.chapter_title,
                      fonte            |-> Estruturada]]

BuildStructured ==
    /\ pc = "build_structured"
    /\ full' = structured_frame
    /\ structured_full' = Project(structured_frame, OutCols)
    /\ pc' = "cats"
    /\ UNCHANGED <<mode, chapters_raw, blocks_raw, categories_raw, subcats_raw,
                   chapters, blocks, categories, subcats, has_block_chapter,
                   has_subcat_title, datasus_raw, cats, datasus_enriched, df,
                   arg, ret>>

-----------------------------------------------------------------------------
(* the category map handed to the enricher *)

\* run_etl, line 175.  With a chapter_code column in blocks the first merge
\* leaves chapter_code_x / chapter_code_y and the second raises KeyError.
EtlCats ==
    /\ pc = "cats"
    /\ mode = "files"
    /\ IF has_block_chapter
       THEN /\ pc' = "failed"
            /\ UNCHANGED cats
       ELSE /\ cats' = cats_blocks_chapters
            /\ pc' = "prepare_datasus"
    /\ UNCHANGED <<mode, chapters_raw, blocks_raw, categories_raw, subcats_raw,
                   chapters, blocks, categories, subcats, has_block_chapter,
                   has_subcat_title, datasus_raw, full, structured_full,
                   datasus_enriched, df, arg, ret>>

\* run_etl_from_datasus_dir, lines 340-353: the map, and the official list
\* taken from the structured rows
DirCats ==
    /\ pc = "cats"
    /\ mode = "dir"
    /\ cats' = cats_chapters_blocks
    /\ datasus_raw' = [i \in 1..Len(structured_full) |->
                          [codigo    |-> structured_full[i].cid_codigo,
                           descricao |-> structured_full[i].descricao]]
    /\ pc' = "prepare_datasus"
    /\ UNCHANGED <<mode, chapters_raw, blocks_raw, categories_raw, subcats_raw,
                   chapters, blocks, categories, subcats, has_block_chapter,
                   has_subcat_title, full, structured_full, datasus_enriched,
                   df, arg, ret>>

-----------------------------------------------------------------------------
(* prepare_datasus: the Secondary-Source Enricher *)

\* lines 126-155
enriched_frame ==
    LET raw == [i \in 1..Len(datasus_raw) |->
                   LET codigo == normalize_code(datasus_raw[i].codigo)
                   IN  [cid_codigo       |-> codigo,
                        descricao        |-> datasus_raw[i].descricao,
                        cid_categoria    |-> extract_root_category(codigo),
                        cid_subcategoria |-> subcategoria(codigo),
                        titulo           |-> datasus_raw[i].descricao]]
        cats_norm == [i \in 1..Len(cats) |->
                        [category_code |-> normalize_code(cats[i].category_code),
                         block_id      |-> cats[i].block_id,
                         block_title   |-> cats[i].block_title,
                         chapter_code  |-> cats[i].chapter_code,
                         chapter_title |-> cats[i].chapter_title]]
        enriched == merge_left(raw, cats_norm, "cid_categoria", "category_code",
                               [category_code |-> Null, block_id |-> Null,
                                block_title |-> Null, chapter_code |-> Null,
                                chapter_title |-> Null])
    IN  [i \in 1..Len(enriched) |->
            LET r == enriched[i]
            IN  r @@ [bloco_codigo    |-> r.block_id,
                      bloco_titulo    |-> r.block_title,
                      capitulo_codigo |-> r.chapter_code,
                      capitulo_titulo |-> r.chapter_title,
                      fonte           |-> DATASUS]]

PrepareDatasus ==
    /\ pc = "prepare_datasus"
    /\ datasus_enriched' = Project(enriched_frame, OutCols)
    /\ pc' = "consolidate"
    /\ UNCHANGED <<mode, chapters_raw, blocks_raw, categories_raw, subcats_raw,
                   chapters, blocks, categories, subcats, has_block_chapter,
                   has_subcat_title, datasus_raw, full, structured_full, cats,
                   df, arg, ret>>

-----------------------------------------------------------------------------
(* the Consolidator: lines 178-187 and 356-363 *)

RunDate == "today"

\* an ascending sort: a sorts before b when a < b
fonte_before_ascending(a, b) == ~StrLeq(b, a)

\* sort_values("fonte", ascending=False): a sorts before b when a > b
fonte_before(a, b) == ~StrLeq(a, b)

\* lines 179-180: the two frames, one after the other, codes normalized again
concat_frame ==
    LET both == structured_full \o datasus_enriched
    IN  [i \in 1..Len(both) |->
            [both[i] EXCEPT !.cid_codigo = normalize_code(@)]]

\* The default sort is not stable: rows of one fonte come out in any order.
\* What drop_duplicates then keeps depends only on which row of each code
\* comes first, so an ordering is named by the set of rows, one per code,
\* that the sort puts ahead of their equals.  The rows that can be first of
\* code k are those of k's first fonte; of identical rows one is taken.
first_rows(frame, k) ==
    {i \in 1..Len(frame) :
        /\ frame[i].cid_codigo = k
        /\ \A j \in 1..Len(frame) :
              frame[j].cid_codigo = k =>
                  /\ ~fonte_before(frame[j].fonte, frame[i].fonte)
                  /\ j < i => frame[j] # frame[i]}

RECURSIVE first_choices(_, _)
first_choices(frame, codes) ==
    IF codes = {} THEN {{}}
    ELSE LET k == CHOOSE c \in codes : TRUE
         IN  UNION {{{i} \cup rest : rest \in first_choices(frame, codes \ {k})}
                      : i \in first_rows(frame, k)}

\* the values of the sort key, in sorted order
RECURSIVE fonte_order(_)
fonte_order(fontes) ==
    IF fontes = {} THEN <<>>
    ELSE LET f == CHOOSE f \in fontes :
                      \A g \in fontes \ {f} : fonte_before(f, g)
         IN  <<f>> \o fonte_order(fontes \ {f})

\* df.sort_values("fonte", ascending=False), line 183: by fonte, and within a
\* fonte the rows of ahead, then the others
sort_values(frame, ahead) ==
    LET tagged == [i \in 1..Len(frame) |-> [idx |-> i, row |-> frame[i]]]
        order  == fonte_order({frame[i].fonte : i \in 1..Len(frame)})
        sorted == Flatten([n \in 1..Len(order) |->
                      SelectSeq(tagged, LAMBDA t :
                          t.row.fonte = order[n] /\ t.idx \in ahead)
                      \o SelectSeq(tagged, LAMBDA t :
                          t.row.fonte = order[n] /\ t.idx \notin ahead)])
    IN  [n \in 1..Len(sorted) |-> sorted[n].row]

\* a consolidation that keeps every row
drop_duplicates_none(frame) == frame

\* df.drop_duplicates(subset=["cid_codigo"], keep="first"), line 184: a row
\* stays when no earlier row has its code (missing codes are equal)
RECURSIVE drop_duplicates(_)
drop_duplicates(frame) ==
    IF frame = <<>> THEN <<>>
    ELSE LET n == Len(frame)
             init == drop_duplicates(SubSeq(frame, 1, n - 1))
         IN  IF \E i \in 1..Len(init) : init[i].cid_codigo = frame[n].cid_codigo
             THEN init
             ELSE Append(init, frame[n])

Consolidate ==
    /\ pc = "consolidate"
    /\ \E ahead \in first_choices(concat_frame,
                                  {concat_frame[i].cid_codigo :
                                      i \in 1..Len(concat_frame)}) :
          df' = LET kept == drop_duplicates(sort_values(concat_frame, ahead))
                IN  [i \in 1..Len(kept) |->
                        kept[i] @@ [dt_atualizacao |-> RunDate]]
    /\ pc' = "done"
    /\ UNCHANGED <<mode, chapters_raw, blocks_raw, categories_raw, subcats_raw,
                   chapters, blocks, categories, subcats, has_block_chapter,
                   has_subcat_title, datasus_raw, full, structured_full, cats,
                   datasus_enriched, arg, ret>>

-----------------------------------------------------------------------------
(* Inputs *)

MaxLen == 5         \* longest text handed to a utility
MaxRanges == 2      \* rows of the chapter and block registries (SpecHier)
MaxCategories == 1  \* rows of the category table (Spec)
MaxRows == 2        \* rows of the subcategory table (Spec)
MaxOfficial == 1    \* rows of the flat official list (Spec)

A00 == <<65, 48, 48>>
A05 == <<65, 48, 53>>
A07 == <<65, 48, 55>>
A09 == <<65, 48, 57>>
B00 == <<66, 48, 48>>

\* " ", ".", "0", "1", "A", "a"
Chars == {32, 46, 48, 49, 65, 97}

Texts == SeqsUpTo(Chars, MaxLen) \cup {Null}

\* a registry of ranges, titled by a letter and the row's number
RangeRows(ranges, letter) ==
    [i \in 1..Len(ranges) |->
        [CATINIC |-> ranges[i][1], CATFIM |-> ranges[i][2],
         DESCRICAO |-> Title(letter, i)]]

CategoryRows(codes) ==
    [i \in 1..Len(codes) |-> [CAT |-> codes[i], DESCRICAO |-> Title(75, i)]]

SubcatRows(codes) ==
    [i \in 1..Len(codes) |-> [SUBCAT |-> codes[i], DESCRICAO |-> Title(83, i)]]

\* endpoints as the files may spell them: "A00", "a05", "A09 "
HierEndpoints == {A00, <<97, 48, 53>>, A09 \o <<32>>}

HierRanges ==
    {r \in HierEndpoints \X HierEndpoints :
        StrLeq(Upper(Strip(r[1])), Upper(Strip(r[2])))}

\* blocks "A00"-"A09 ", "a05"-"A09 " and "A00"-"A00"
HierBlockRanges == {<<A00, A09 \o <<32>>>>, <<<<97, 48, 53>>, A09 \o <<32>>>>,
                    <<A00, A00>>}

\* "A00", " a03", "A07", "A09", "B00"
HierCategories == {A00, <<32, 97, 48, 51>>, A07, A09, B00}

DirChapterRanges == {<<A00, A05>>, <<A00, A09>>}

DirBlockRanges == {<<A00, A09>>, <<A07, A09>>}

DirCategories == {A00, A07}

\* "A000", "A07 ", " a071"
DirSubcats == {A00 \o <<48>>, A07 \o <<32>>, <<32, 97, 48, 55, 49>>}

FileChapter == RangeCode(A00, A09)

FileBlock == RangeCode(A00, A05)

\* (subcategory_code, category_code): "A00.1" under "A00", " a00.1" under "a00"
FileSubcats == {<<A00 \o <<46, 49>>, A00>>,
                <<<<32, 97, 48, 48, 46, 49>>, <<97, 48, 48>>>>}

\* with a subcategory_title column: the first titled or untitled, the second
\* titled
FileTitled == {<<<<A00 \o <<46, 49>>, A00>>, TRUE>>,
               <<<<A00 \o <<46, 49>>, A00>>, FALSE>>,
               <<<<<<32, 97, 48, 48, 46, 49>>, <<97, 48, 48>>>>, TRUE>>}

\* "A00.1", "a00.1 ", "A001"
FileOfficial == {A00 \o <<46, 49>>, <<97, 48, 48, 46, 49, 32>>, A00 \o <<49>>}

\* run_etl: the five files as read (lines 165-169)
InitFiles ==
    /\ mode = "files"
    /\ pc = "build_structured"
    /\ chapters_raw = <<>> /\ blocks_raw = <<>>
    /\ categories_raw = <<>> /\ subcats_raw = <<>>
    /\ chapters = <<[chapter_code |-> FileChapter, chapter_title |-> Title(67, 1)]>>
    /\ has_block_chapter \in BOOLEAN
    /\ blocks = IF has_block_chapter
                THEN <<[block_id |-> FileBlock, block_title |-> Title(66, 1),
                        chapter_code |-> FileChapter]>>
                ELSE <<[block_id |-> FileBlock, block_title |-> Title(66, 1)]>>
    /\ categories \in {[i \in 1..Len(c) |->
                          [category_code |-> A00, category_title |-> Title(75, i),
                           block_id |-> FileBlock, chapter_code |-> c[i]]]
                          : c \in SeqsUpTo({FileChapter, Null}, MaxCategories)}
    /\ has_subcat_title \in BOOLEAN
    /\ subcats \in {[i \in 1..Len(c) |->
                       IF has_subcat_title
                       THEN [subcategory_code |-> c[i][1][1],
                             category_code |-> c[i][1][2],
                             subcategory_title |->
                                 IF c[i][2] THEN Title(83, i) ELSE Null]
                       ELSE [subcategory_code |-> c[i][1][1],
                             category_code |-> c[i][1][2]]]
                       : c \in SeqsUpTo(IF has_subcat_title THEN FileTitled
                                        ELSE FileSubcats \X {TRUE}, MaxRows)}
    /\ datasus_raw \in {[i \in 1..Len(c) |->
                           [codigo |-> c[i], descricao |-> Title(68, i)]]
                           : c \in SeqsUpTo(FileOfficial, MaxOfficial)}
    /\ full = <<>> /\ structured_full = <<>> /\ cats = <<>>
    /\ datasus_enriched = <<>> /\ df = <<>>
    /\ arg = Null /\ ret = Null

\* run_etl_from_datasus_dir: the four official CSVs as read (lines 224-227),
\* with one chapter and one block (SpecHier has the longer registries)
InitDir ==
    /\ mode = "dir"
    /\ pc = "read_official"
    /\ chapters_raw \in {RangeRows(<<r>>, 67) : r \in DirChapterRanges}
    /\ blocks_raw \in {RangeRows(<<r>>, 66) : r \in DirBlockRanges}
    /\ categories_raw \in {CategoryRows(c) : c \in SeqsUpTo(DirCategories, MaxCategories)}
    /\ subcats_raw \in {SubcatRows(c) : c \in SeqsUpTo(DirSubcats, MaxRows)}
    /\ chapters = <<>> /\ blocks = <<>> /\ categories = <<>> /\ subcats = <<>>
    /\ has_block_chapter = FALSE /\ has_subcat_title = FALSE
    /\ datasus_raw = <<>> /\ full = <<>> /\ structured_full = <<>>
    /\ cats = <<>> /\ datasus_enriched = <<>> /\ df = <<>>
    /\ arg = Null /\ ret = Null

Init == InitFiles \/ InitDir

Next ==
    \/ ReadDatasusOfficial
    \/ BuildStructured
    \/ EtlCats
    \/ DirCats
    \/ PrepareDatasus
    \/ Consolidate

Spec == Init /\ [][Next]_vars

\* read_datasus_official alone, over registries with overlapping and repeated
\* ranges
InitHier ==
    /\ mode = "dir"
    /\ pc = "read_official"
    /\ chapters_raw \in {RangeRows(r, 67) : r \in SeqsUpTo(HierRanges, MaxRanges)}
    /\ blocks_raw \in {RangeRows(r, 66) : r \in SeqsUpTo(HierBlockRanges, MaxRanges)}
    /\ categories_raw \in {CategoryRows(<<c>>) : c \in HierCategories}
    /\ subcats_raw = <<>>
    /\ chapters = <<>> /\ blocks = <<>> /\ categories = <<>> /\ subcats = <<>>
    /\ has_block_chapter = FALSE /\ has_subcat_title = FALSE
    /\ datasus_raw = <<>> /\ full = <<>> /\ structured_full = <<>>
    /\ cats = <<>> /\ datasus_enriched = <<>> /\ df = <<>>
    /\ arg = Null /\ ret = Null

NextHier == ReadDatasusOfficial

SpecHier == InitHier /\ [][NextHier]_vars

\* the utilities, each applied to a text
CallNormalizeCode ==
    /\ pc = "call"
    /\ ret' = normalize_code(arg)
    /\ pc' = "normalize_code"
    /\ UNCHANGED <<mode, chapters_raw, blocks_raw, categories_raw, subcats_raw,
                   chapters, blocks, categories, subcats, has_block_chapter,
                   has_subcat_title, datasus_raw, full, structured_full, cats,
                   datasus_enriched, df, arg>>

CallExtractRootCategory ==
    /\ pc = "call"
    /\ ret' = extract_root_category(arg)
    /\ pc' = "extract_root_category"
    /\ UNCHANGED <<mode, chapters_raw, blocks_raw, categories_raw, subcats_raw,
                   chapters, blocks, categories, subcats, has_block_chapter,
                   has_subcat_title, datasus_raw, full, structured_full, cats,
                   datasus_enriched, df, arg>>

CallFormatSubcat ==
    /\ pc = "call"
    /\ ret' = format_subcat(arg)
    /\ pc' = "format_subcat"
    /\ UNCHANGED <<mode, chapters_raw, blocks_raw, categories_raw, subcats_raw,
                   chapters, blocks, categories, subcats, has_block_chapter,
                   has_subcat_title, datasus_raw, full, structured_full, cats,
                   datasus_enriched, df, arg>>

InitUtil ==
    /\ mode = "util"
    /\ pc = "call"
    /\ chapters_raw = <<>> /\ blocks_raw = <<>>
    /\ categories_raw = <<>> /\ subcats_raw = <<>>
    /\ chapters = <<>> /\ blocks = <<>> /\ categories = <<>> /\ subcats = <<>>
    /\ has_block_chapter = FALSE /\ has_subcat_title = FALSE
    /\ datasus_raw = <<>> /\ full = <<>> /\ structured_full = <<>>
    /\ cats = <<>> /\ datasus_enriched = <<>> /\ df = <<>>
    /\ arg \in Texts
    /\ ret = Null

NextUtil ==
    \/ CallNormalizeCode
    \/ CallExtractRootCategory
    \/ CallFormatSubcat

SpecUtil == InitUtil /\ [][NextUtil]_vars

-----------------------------------------------------------------------------
(* Properties *)

\* the normal form of a code: trimmed and uppercased, a missing code missing
NormalForm(c) == IF IsNa(c) THEN Null ELSE Upper(Strip(c))

\* code lies in the range r = (start, end), both ends included
InRange(code, r) == StrLeq(r[1], code) /\ StrLeq(code, r[2])

Built == pc \in {"cats", "prepare_datasus", "consolidate", "done", "failed"}

Enriched == pc \in {"consolidate", "done"}

\* C1: after consolidation no two output rows carry the same normalized
\* code, whatever the two sources held.
C1_UniqueCodes ==
    pc = "done" =>
        \A i, j \in 1..Len(df) :
            NormalForm(df[i].cid_codigo) = NormalForm(df[j].cid_codigo) => i = j

\* C1's case: a finished run in which a structured and an official code were
\* spelled differently, normalize to the same code, and one row was dropped.
C1_Witness ==
    /\ pc = "done"
    /\ Len(df) < Len(structured_full) + Len(datasus_enriched)
    /\ \E i \in 1..Len(subcats), j \in 1..Len(datasus_raw) :
          /\ subcats[i].subcategory_code # datasus_raw[j].codigo
          /\ NormalForm(subcats[i].subcategory_code) = NormalForm(datasus_raw[j].codigo)

\* C2: a code produced by both sources survives as exactly one row, tagged
\* Estruturada and carrying the fields of a structured row of that code.
C2_StructuredWins ==
    pc = "done" =>
        \A s \in 1..Len(structured_full), o \in 1..Len(datasus_enriched) :
            NormalForm(structured_full[s].cid_codigo)
                    = NormalForm(datasus_enriched[o].cid_codigo) =>
                \E i \in 1..Len(df) :
                    /\ df[i].cid_codigo = NormalForm(structured_full[s].cid_codigo)
                    /\ df[i].fonte = Estruturada
                    /\ \E t \in 1..Len(structured_full) :
                          [f \in OutCols |-> df[i][f]] =
                              [structured_full[t] EXCEPT !.cid_codigo = NormalForm(@)]
                    /\ \A j \in 1..Len(df) :
                          df[j].cid_codigo = df[i].cid_codigo => j = i

\* C2's case: the structured row of a shared code has no block and no
\* chapter, the official row has both, and the structured row is the output.
C2_Witness ==
    /\ pc = "done"
    /\ \E s \in 1..Len(structured_full), o \in 1..Len(datasus_enriched),
          i \in 1..Len(df) :
          /\ structured_full[s].cid_codigo = datasus_enriched[o].cid_codigo
          /\ IsNa(structured_full[s].bloco_codigo)
          /\ IsNa(structured_full[s].capitulo_codigo)
          /\ ~IsNa(datasus_enriched[o].bloco_codigo)
          /\ ~IsNa(datasus_enriched[o].capitulo_codigo)
          /\ df[i].cid_codigo = structured_full[s].cid_codigo
          /\ df[i].fonte = Estruturada
          /\ IsNa(df[i].bloco_codigo)

\* C3: every subcategory row and every official row reaches its flattened
\* table, with missing ancestry when its category is unmatched, and every
\* flattened row's code is in the output: only duplicates of a code go.
C3_NoRowLost ==
    /\ Built =>
          \A i \in 1..Len(subcats) :
              \E r \in 1..Len(structured_full) :
                  /\ structured_full[r].cid_codigo
                        = NormalForm(subcats[i].subcategory_code)
                  /\ (\A c \in 1..Len(categories) :
                          categories[c].category_code # subcats[i].category_code)
                     => /\ IsNa(structured_full[r].bloco_codigo)
                        /\ IsNa(structured_full[r].bloco_titulo)
                        /\ IsNa(structured_full[r].capitulo_codigo)
                        /\ IsNa(structured_full[r].capitulo_titulo)
    /\ (Built /\ mode = "dir") => Len(subcats) = Len(subcats_raw)
    /\ Enriched =>
          \A i \in 1..Len(datasus_raw) :
              \E r \in 1..Len(datasus_enriched) :
                  /\ datasus_enriched[r].cid_codigo
                        = NormalForm(datasus_raw[i].codigo)
                  /\ (\A c \in 1..Len(categories) :
                          NormalForm(categories[c].category_code)
                              # datasus_enriched[r].cid_categoria)
                     => /\ IsNa(datasus_enriched[r].bloco_codigo)
                        /\ IsNa(datasus_enriched[r].bloco_titulo)
                        /\ IsNa(datasus_enriched[r].capitulo_codigo)
                        /\ IsNa(datasus_enriched[r].capitulo_titulo)
    /\ pc = "done" =>
          /\ \A r \in 1..Len(structured_full) :
                \E i \in 1..Len(df) :
                    df[i].cid_codigo = NormalForm(structured_full[r].cid_codigo)
          /\ \A r \in 1..Len(datasus_enriched) :
                \E i \in 1..Len(df) :
                    df[i].cid_codigo = NormalForm(datasus_enriched[r].cid_codigo)

\* C3's case: a subcategory whose category is in no category row is in the
\* output of a finished run, without ancestry.
C3_Witness ==
    /\ pc = "done"
    /\ \E i \in 1..Len(subcats), d \in 1..Len(df) :
          /\ \A c \in 1..Len(categories) :
                categories[c].category_code # subcats[i].category_code
          /\ Len(categories) > 0
          /\ df[d].cid_codigo = NormalForm(subcats[i].subcategory_code)
          /\ df[d].fonte = Estruturada
          /\ IsNa(df[d].bloco_codigo)
          /\ IsNa(df[d].capitulo_codigo)

\* C4: a category's block_id and chapter_code are each the code of the first
\* range, in the registry's order, that contains the category code (ends
\* included, compared as strings), and missing when no range contains it.
C4_FirstMatchingRange ==
    pc = "build_structured" =>
        \A i \in 1..Len(categories) :
            LET code == categories[i].category_code
                B == range_list(blocks_raw)
                C == range_list(chapters_raw)
            IN  /\ Len(code) = 3
                /\ \/ \E j \in 1..Len(B) :
                         /\ InRange(code, B[j])
                         /\ \A k \in 1..(j - 1) : ~InRange(code, B[k])
                         /\ categories[i].block_id = RangeCode(B[j][1], B[j][2])
                   \/ /\ \A j \in 1..Len(B) : ~InRange(code, B[j])
                      /\ IsNa(categories[i].block_id)
                /\ \/ \E j \in 1..Len(C) :
                         /\ InRange(code, C[j])
                         /\ \A k \in 1..(j - 1) : ~InRange(code, C[k])
                         /\ categories[i].chapter_code = RangeCode(C[j][1], C[j][2])
                   \/ /\ \A j \in 1..Len(C) : ~InRange(code, C[j])
                      /\ IsNa(categories[i].chapter_code)

\* C4's case: two different block ranges contain the category code and the
\* category has the earlier one's block_id.
C4_Witness ==
    /\ pc = "build_structured"
    /\ \E i \in 1..Len(categories) :
          LET code == categories[i].category_code
              B == range_list(blocks_raw)
          IN  /\ Len(B) = 2
              /\ B[1] # B[2]
              /\ InRange(code, B[1])
              /\ InRange(code, B[2])
              /\ categories[i].block_id = RangeCode(B[1][1], B[1][2])

\* C5 as amended: the raw code is trimmed and uppercased first; that text,
\* when it has four or more characters and a non-blank fourth one, is
\* rendered as its first three characters, ".", and the rest, and otherwise
\* as its first three characters; a missing code stays missing.
C5_FormatTrimmed ==
    pc = "format_subcat" =>
        IF IsNa(arg) THEN IsNa(ret)
        ELSE LET s == Upper(Strip(arg))
             IN  IF Len(s) >= 4 /\ ~IsSpace(s[4])
                 THEN ret = SubSeq(s, 1, 3) \o <<46>> \o SubSeq(s, 4, Len(s))
                 ELSE ret = Take(s, 3)

\* C5's case: a raw code that trimming or uppercasing changes got its dot.
C5_Witness ==
    /\ pc = "format_subcat"
    /\ ~IsNa(arg)
    /\ arg # Upper(Strip(arg))
    /\ Len(Upper(Strip(arg))) >= 4
    /\ Len(ret) >= 5
    /\ ret[4] = 46

\* C5 as stated: the rule applied to the raw code's own characters.
C5_FormatRaw ==
    (pc = "format_subcat" /\ ~IsNa(arg)) =>
        IF Len(arg) >= 4 /\ ~IsSpace(arg[4])
        THEN ret = SubSeq(arg, 1, 3) \o <<46>> \o SubSeq(arg, 4, Len(arg))
        ELSE ret = Take(arg, 3)

\* C6: normalize gives a missing value for a missing, empty or blank input
\* and the trimmed, uppercased text for every other input.
C6_NormalizeBlankIsNull ==
    pc = "normalize_code" =>
        IF IsNa(arg) \/ Strip(arg) = <<>> THEN IsNa(ret)
        ELSE ret = Upper(Strip(arg))

\* C7: an enriched row with a code has the code's first three characters as
\* its cid_categoria, with or without a "." in the code.
C7_RootIsPrefix ==
    Enriched =>
        \A r \in 1..Len(datasus_enriched) :
            ~IsNa(datasus_enriched[r].cid_codigo) =>
                datasus_enriched[r].cid_categoria
                    = Take(datasus_enriched[r].cid_codigo, 3)

\* C8 as amended: titulo is the subcategory_title column's value when the
\* subcategory table has that column, even where the row's value is
\* missing, and the category's title only when the table has no such
\* column; descricao equals titulo.
C8_TitleByColumn ==
    Built =>
        /\ Len(structured_full) = Len(full)
        /\ \A i \in 1..Len(full) :
              /\ structured_full[i].titulo =
                    IF has_subcat_title THEN full[i].subcategory_title
                    ELSE full[i].category_title
              /\ structured_full[i].descricao = structured_full[i].titulo

\* C8's case: the column is there, the row's own title is missing, its
\* category has a title, and the row's titulo is missing.
C8_Witness ==
    /\ Built
    /\ has_subcat_title
    /\ \E i \in 1..Len(full) :
          /\ IsNa(full[i].subcategory_title)
          /\ ~IsNa(full[i].category_title)
          /\ IsNa(structured_full[i].titulo)
          /\ IsNa(structured_full[i].descricao)

\* C8 as stated: titulo is the row's own subcategory title when the row has
\* one and the title of its category otherwise; descricao equals titulo.
C8_TitleByRow ==
    Built =>
        /\ Len(structured_full) = Len(full)
        /\ \A i \in 1..Len(full) :
              /\ structured_full[i].titulo =
                    IF has_subcat_title /\ ~IsNa(full[i].subcategory_title)
                    THEN full[i].subcategory_title
                    ELSE full[i].category_title
              /\ structured_full[i].descricao = structured_full[i].titulo

\* C9: a block's chapter_code is the code of the first chapter range, in the
\* registry's order, that contains the block's start or its end, and is
\* missing exactly when no chapter range contains either.
C9_BlockChapterEitherEndpoint ==
    pc = "build_structured" =>
        /\ Len(blocks) = Len(blocks_raw)
        /\ \A i \in 1..Len(blocks) :
              LET b == range_list(blocks_raw)[i]
                  C == range_list(chapters_raw)
                  Hit(j) == InRange(b[1], C[j]) \/ InRange(b[2], C[j])
              IN  \/ \E j \in 1..Len(C) :
                        /\ Hit(j)
                        /\ \A k \in 1..(j - 1) : ~Hit(k)
                        /\ blocks[i].chapter_code = RangeCode(C[j][1], C[j][2])
                  \/ /\ \A j \in 1..Len(C) : ~Hit(j)
                     /\ IsNa(blocks[i].chapter_code)

\* C9's case: a block that straddles two chapters, its start in the first
\* only and its end in the second only, has the first chapter's code.
C9_Witness ==
    /\ pc = "build_structured"
    /\ \E i \in 1..Len(blocks) :
          LET b == range_list(blocks_raw)[i]
              C == range_list(chapters_raw)
          IN  /\ Len(C) = 2
              /\ InRange(b[1], C[1]) /\ ~InRange(b[2], C[1])
              /\ InRange(b[2], C[2]) /\ ~InRange(b[1], C[2])
              /\ blocks[i].chapter_code = RangeCode(C[1][1], C[1][2])

\* C10: in every structured row of a finished run whose capitulo_codigo names
\* a chapter of the chapter table, capitulo_titulo is the title of a chapter
\* of that code, also when the code came from the block's side.
C10_ChapterTitleAgrees ==
    pc = "done" =>
        \A r \in 1..Len(structured_full) :
            (/\ ~IsNa(structured_full[r].capitulo_codigo)
             /\ \E c \in 1..Len(chapters) :
                   chapters[c].chapter_code = structured_full[r].capitulo_codigo)
            => \E c \in 1..Len(chapters) :
                   /\ chapters[c].chapter_code = structured_full[r].capitulo_codigo
                   /\ chapters[c].chapter_title = structured_full[r].capitulo_titulo

=============================================================================
